---- MODULE Spec2Model ----
(***************************************************************************)
(* Model of verify_lookup_bot.py: the staff directory snapshot and its     *)
(* loader, the query classifier, the exact matcher, the fuzzy ranker, the  *)
(* sliding-window rate limiter, and the two message handlers               *)
(* (handle_query, cmd_reload) as coroutines of one asyncio event loop.     *)
(*                                                                         *)
(* Strings are sequences of one-character strings.  Time is counted in     *)
(* ticks, TicksPerSec ticks to the second, so that time.time() values      *)
(* that are not whole seconds apart exist in the model.                    *)
(***************************************************************************)
EXTENDS Integers, Sequences, FiniteSets, TLC

VARIABLES
    started,      \* on_startup has run and polling has begun
    now,          \* the clock read by time.time(), in ticks
    rate_store,   \* _rate_store: user id -> list of timestamps
    DATA,         \* the global DATA: a reference to a list object
    heap,         \* the list objects alive: reference -> rows
    built,        \* references whose load_dataset call has returned
    published,    \* references that have been bound to DATA
    hashSeed,     \* the process's string hash seed: the iteration order of set()
    req,          \* the handle_query coroutines, one per slot
    rl,           \* the cmd_reload / on_startup coroutine
    running,      \* the coroutine holding the event loop, or NoTask
    accepted,     \* history: every timestamp rate_allow accepted, per user
    msgs,         \* messages received so far
    fpc,          \* position of the pure-function harness
    fin,          \* its input
    fout          \* its output

mainVars == <<started, now, rate_store, DATA, heap, built, published, hashSeed,
              req, rl, running, accepted, msgs>>
pureVars == <<fpc, fin, fout>>
vars == <<started, now, rate_store, DATA, heap, built, published, hashSeed,
          req, rl, running, accepted, msgs, fpc, fin, fout>>

----------------------------------------------------------------------------
(* Bounds of the model *)

NumSlots == 2
MaxMsgs == 4
MaxTime == 5
MaxReloads == 1
TicksPerSec == 2
MaxLen == 3
MaxRows == 3
QSlots == 1
QMsgs == 3

(* Configuration read from the environment at import *)

RATE_LIMIT_COUNT == 2
RATE_LIMIT_WINDOW == 2
CutoffNum == 6
CutoffDen == 10
FUZZY_MAX_SUGGEST == 2

----------------------------------------------------------------------------
(* Strings *)

\* the value None where a record is expected
None == [none |-> TRUE]

Strs(alphabet, n) == UNION {[1..k -> alphabet] : k \in 0..n}

Range(s) == {s[i] : i \in DOMAIN s}

LowerChar(c) ==
    CASE c = "A" -> "a"
      [] c = "B" -> "b"
      [] c = "L" -> "l"
      [] OTHER -> c

\* str.lower()
Lower(s) == [i \in DOMAIN s |-> LowerChar(s[i])]

IsSpace(c) == c = " "

\* s[i:] (1-based, to the end)
Drop(s, i) == SubSeq(s, i, Len(s))

\* str.lstrip(chars) for a one-character set
LStripChar(s, c) ==
    LET keep == {i \in 1..Len(s) : s[i] # c}
    IN IF keep = {} THEN <<>>
       ELSE Drop(s, CHOOSE i \in keep : \A j \in keep : i <= j)

\* str.strip(): whitespace off both ends
Strip(s) ==
    LET keep == {i \in 1..Len(s) : ~IsSpace(s[i])}
    IN IF keep = {} THEN <<>>
       ELSE SubSeq(s, CHOOSE i \in keep : \A j \in keep : i <= j,
                      CHOOSE i \in keep : \A j \in keep : i >= j)

\* str.endswith
EndsWith(s, suffix) ==
    /\ Len(suffix) <= Len(s)
    /\ SubSeq(s, Len(s) - Len(suffix) + 1, Len(s)) = suffix

----------------------------------------------------------------------------
(* Normalizer and loader: load_dataset, lines 82-117 *)

\* lines 109-110: .lower().lstrip("@").strip()
normalizeHandle(s) == Strip(LStripChar(Lower(s), "@"))

\* line 108: .lower().strip()
normalizeEmail(s) == Strip(Lower(s))

\* line 94: every cell is stripped when the row is read
CleanRow(r) == [k \in DOMAIN r |-> Strip(r[k])]

\* lines 89-112: one CSV row to one record with its derived fields
LoadRow(r) ==
    LET row == CleanRow(r)
    IN [full_name      |-> row.full_name,
        tg_username    |-> row.tg_username,
        x_username     |-> row.x_username,
        email          |-> row.email,
        email_norm     |-> normalizeEmail(row.email),
        tg_norm        |-> normalizeHandle(row.tg_username),
        x_norm         |-> normalizeHandle(row.x_username),
        full_name_norm |-> Strip(row.full_name)]

LoadRows(rows) == [i \in DOMAIN rows |-> LoadRow(rows[i])]

----------------------------------------------------------------------------
(* Matcher: find_record, lines 161-188 *)

\* for r in DATA: if <hit>: return r / return None -- the row at the least of
\* the hitting positions, or None
FirstHit(seq, hits) ==
    IF hits = {} THEN None
    ELSE seq[CHOOSE i \in hits : \A j \in hits : i <= j]

\* line 171: the three comparisons of one row, joined by or
RawHit(r, value) == r.tg_norm = value \/ r.x_norm = value \/ r.email_norm = value

\* A matcher that ranks the fields before the rows: telegram, then x, then email.
find_record_by_field(data, field, value) ==
    LET v == Lower(Strip(value))
        tg == FirstHit(data, {i \in DOMAIN data : data[i].tg_norm = v})
        x  == FirstHit(data, {i \in DOMAIN data : data[i].x_norm = v})
        em == FirstHit(data, {i \in DOMAIN data : data[i].email_norm = v})
    IN IF field # "raw" THEN None
       ELSE IF tg # None THEN tg ELSE IF x # None THEN x ELSE em

find_record(data, field, value) ==
    LET v == Lower(Strip(value))
    IN CASE field \in {"email_norm", "tg_norm", "x_norm"} ->
              FirstHit(data, {i \in DOMAIN data : Lower(data[i][field]) = v})
         [] field = "raw" ->
              FirstHit(data, {i \in DOMAIN data : RawHit(data[i], v)})
         [] field = "name" ->
              FirstHit(data, {i \in DOMAIN data : Lower(data[i].full_name_norm) = Lower(v)})
         [] field = "email_domain" ->
              FirstHit(data, {i \in DOMAIN data :
                                /\ data[i].email_norm # <<>>
                                /\ EndsWith(data[i].email_norm, <<"@">> \o v)})
         [] OTHER -> None

----------------------------------------------------------------------------
(* difflib.SequenceMatcher(None, a, b).ratio(), used at line 194.          *)
(* No junk: isjunk is None and autojunk needs 200 elements.                *)

\* length of the common run of a from i and b from j, inside a[..ahi], b[..bhi]
RunLen(a, b, i, j, ahi, bhi) ==
    LET ks == {k \in 0..(ahi - i + 1) :
                 /\ j + k - 1 <= bhi
                 /\ \A d \in 0..(k - 1) : a[i + d] = b[j + d]}
    IN CHOOSE k \in ks : \A m \in ks : k >= m

\* find_longest_match: the longest block, the earliest in a, then the earliest in b
FindLongestMatch(a, b, alo, ahi, blo, bhi) ==
    LET cands == {<<i, j, RunLen(a, b, i, j, ahi, bhi)>> : i \in alo..ahi, j \in blo..bhi}
        Better(p, q) == \/ p[3] > q[3]
                        \/ p[3] = q[3] /\ p[1] < q[1]
                        \/ p[3] = q[3] /\ p[1] = q[1] /\ p[2] <= q[2]
    IN IF cands = {} THEN <<alo, blo, 0>>
       ELSE CHOOSE p \in cands : \A q \in cands : Better(p, q)

RECURSIVE MatchedLen(_, _, _, _, _, _)
\* get_matching_blocks: the sizes of the blocks found left and right of the longest
MatchedLen(a, b, alo, ahi, blo, bhi) ==
    IF alo > ahi \/ blo > bhi THEN 0
    ELSE LET m == FindLongestMatch(a, b, alo, ahi, blo, bhi)
         IN IF m[3] = 0 THEN 0
            ELSE m[3] + MatchedLen(a, b, alo, m[1] - 1, blo, m[2] - 1)
                      + MatchedLen(a, b, m[1] + m[3], ahi, m[2] + m[3], bhi)

\* ratio() as the fraction <<2*M, T>>; 1.0 when both strings are empty
Ratio(a, b) ==
    IF Len(a) + Len(b) = 0 THEN <<1, 1>>
    ELSE <<2 * MatchedLen(a, b, 1, Len(a), 1, Len(b)), Len(a) + Len(b)>>

RatioGeq(p, q) == p[1] * q[2] >= q[1] * p[2]
RatioGt(p, q) == p[1] * q[2] > q[1] * p[2]

----------------------------------------------------------------------------
(* Fuzzy ranker: fuzzy_name_suggestions, lines 190-198 *)

\* line 191: the names of the rows that have one, in snapshot order
NamesOf(data) ==
    LET named == SelectSeq(data, LAMBDA r : r.full_name_norm # <<>>)
    IN [i \in DOMAIN named |-> named[i].full_name_norm]

\* line 193: iteration over set(names); its order is that of the string hashes,
\* which the interpreter seeds per process
SetOrder(names, seed) == SelectSeq(seed, LAMBDA n : n \in Range(names))

RECURSIVE InsertByRatio(_, _)
\* insert e behind every entry whose ratio is not smaller
InsertByRatio(sorted, e) ==
    IF sorted = <<>> THEN <<e>>
    ELSE IF RatioGeq(Head(sorted)[2], e[2])
         THEN <<Head(sorted)>> \o InsertByRatio(Tail(sorted), e)
         ELSE <<e>> \o sorted

RECURSIVE SortByRatioDesc(_)
\* line 197: list.sort(key=ratio, reverse=True), a stable sort
SortByRatioDesc(s) ==
    IF s = <<>> THEN <<>>
    ELSE InsertByRatio(SortByRatioDesc(SubSeq(s, 1, Len(s) - 1)), s[Len(s)])

Take(s, n) == SubSeq(s, 1, IF Len(s) < n THEN Len(s) ELSE n)

fuzzy_name_suggestions(data, name_value, seed) ==
    LET order  == SetOrder(NamesOf(data), seed)
        all    == [i \in DOMAIN order |-> <<order[i], Ratio(Lower(name_value), Lower(order[i]))>>]
        scored == SelectSeq(all, LAMBDA e : RatioGeq(e[2], <<CutoffNum, CutoffDen>>))
    IN Take(SortByRatioDesc(scored), FUZZY_MAX_SUGGEST)

----------------------------------------------------------------------------
(* Query classifier: parse_query, lines 126-158, and the greeting test     *)

Letters == {"a", "b", "d", "e", "h", "i", "l", "n", "o", "r", "t", "u", "z", "A", "B", "L"}
WordChars == Letters \cup {"_"}
NameChars == Letters \cup {"-", " ", "."}
EmailLocalChars == Letters \cup {".", "_", "%", "+", "-"}
DomainChars == Letters \cup {".", "-"}

AllIn(s, lo, hi, chars) == \A i \in lo..hi : s[i] \in chars

\* [A-Za-z0-9.-]+\.[A-Za-z]{2,} on t[a..e] with the dot at q
DomainAt(t, a, q, e) ==
    /\ a < q /\ q + 2 <= e /\ t[q] = "."
    /\ AllIn(t, a, q - 1, DomainChars)
    /\ AllIn(t, q + 1, e, Letters)

\* line 130: the leftmost match of local@domain, quantifiers greedy;
\* <<start, end>> of group 1, or <<>>
EmailSearch(t) ==
    LET ms == {m \in (1..Len(t)) \X (1..Len(t)) \X (1..Len(t)) \X (1..Len(t)) :
                 /\ m[1] < m[2] /\ t[m[2]] = "@"
                 /\ AllIn(t, m[1], m[2] - 1, EmailLocalChars)
                 /\ DomainAt(t, m[2] + 1, m[3], m[4])}
        First(m) == \A k \in ms :
                      \/ m[1] < k[1]
                      \/ m[1] = k[1] /\ m[2] > k[2]
                      \/ m[1] = k[1] /\ m[2] = k[2] /\ m[3] > k[3]
                      \/ m[1] = k[1] /\ m[2] = k[2] /\ m[3] = k[3] /\ m[4] >= k[4]
    IN IF ms = {} THEN <<>>
       ELSE LET m == CHOOSE m \in ms : First(m) IN <<m[1], m[4]>>

\* line 154: @?(domain)$ ; the start of group 1, or 0
DomainSearch(t) ==
    LET ms == {m \in (1..Len(t)) \X (1..Len(t)) : DomainAt(t, m[1], m[2], Len(t))}
    IN IF ms = {} THEN 0
       ELSE (CHOOSE m \in ms : \A k \in ms : m[1] <= k[1])[1]

\* line 145: ^@?([A-Za-z0-9_]{1,64})$ ; the handle, or <<>>
PlainHandle(t) ==
    LET h == IF t # <<>> /\ t[1] = "@" THEN Tail(t) ELSE t
    IN IF 1 <= Len(h) /\ Len(h) <= 64 /\ AllIn(h, 1, Len(h), WordChars) THEN h ELSE <<>>

\* line 150
IsNameLike(t) == 2 <= Len(t) /\ Len(t) <= 100 /\ AllIn(t, 1, Len(t), NameChars)

\* The x.com and t.me patterns of lines 135 and 140 both need a "/", which no
\* message of the model contains: they never match here.
parse_query(text) ==
    LET t == Strip(text)
        em == EmailSearch(t)
        dom == DomainSearch(t)
    IN IF em # <<>> THEN <<"email_norm", Lower(SubSeq(t, em[1], em[2]))>>
       ELSE IF PlainHandle(t) # <<>> THEN <<"raw", Lower(PlainHandle(t))>>
       ELSE IF IsNameLike(t) THEN <<"name", Strip(t)>>
       ELSE IF dom # 0 THEN <<"email_domain", Lower(Drop(t, dom))>>
       ELSE <<"", <<>>>>

\* str.split(): the maximal runs of non-space characters
TokenStarts(t) == {i \in 1..Len(t) : ~IsSpace(t[i]) /\ (i = 1 \/ IsSpace(t[i - 1]))}

TokenCount(t) == Cardinality(TokenStarts(t))

FirstToken(t) ==
    LET i == CHOOSE i \in TokenStarts(t) : \A j \in TokenStarts(t) : i <= j
        ends == {e \in i..Len(t) : e = Len(t) \/ IsSpace(t[e + 1])}
    IN SubSeq(t, i, CHOOSE e \in ends : \A f \in ends : e <= f)

\* the members of GREETINGS (lines 46-50) and of the tuple of line 293 that the
\* messages of the model can spell
GREETINGS == {<<"h", "i">>}
AnotherWords == {<<"a", "n", "o", "t", "h", "e", "r">>}

\* lines 53-62, for messages without punctuation
is_greeting(text) ==
    LET t == Strip(text)
    IN /\ t # <<>>
       /\ \/ Lower(t) \in GREETINGS
          \/ Lower(FirstToken(t)) \in GREETINGS /\ TokenCount(t) <= 3

----------------------------------------------------------------------------
(* Rate limiter: rate_allow, lines 201-212 *)

Window == RATE_LIMIT_WINDOW * TicksPerSec

Max(a, b) == IF a >= b THEN a ELSE b

\* int(): seconds from ticks, truncated toward zero
TruncSec(ticks) == IF ticks >= 0 THEN ticks \div TicksPerSec ELSE -((-ticks) \div TicksPerSec)

\* the comparison of line 205 keeping the timestamps after the window's start
InWindowInclusive(t, window_start) == t >= window_start

InWindow(t, window_start) == t > window_start

\* lines 204-205
Prune(lst, t_now) == SelectSeq(lst, LAMBDA t : InWindow(t, t_now - Window))

\* lines 207 and 209
RetryAfter(lst, t_now) ==
    Max(1, IF lst # <<>> THEN TruncSec(lst[1] + Window - t_now) ELSE RATE_LIMIT_WINDOW)

----------------------------------------------------------------------------
(* The strings the model feeds the program *)

S_al    == <<"a", "l">>
S_AlBo  == <<"A", "l", " ", "B", "o">>
S_albo  == <<"a", "l", " ", "b", "o">>
S_albu  == <<"a", "l", " ", "b", "u">>
S_alb   == <<"a", "l", " ", "b">>
S_zed   == <<"z", "e", "d">>

\* CSV rows as the reader yields them
Row(name, tg, x, email) ==
    [full_name |-> name, tg_username |-> tg, x_username |-> x, email |-> email]

R1 == Row(S_AlBo, <<"@", "A", "l">>, <<>>, <<"A", "@", "b", ".", "i", "o">>)
R2 == Row(S_albu, <<>>, <<"@", "a", "l">>, <<>>)
R3 == Row(S_al, <<"z", "e", "d">>, <<>>, <<"A", "L", " ">>)
R4 == Row(<<>>, <<"a", "l">>, <<"z", "e", "d">>, <<>>)

RowPool == {R1, R2, R3, R4}
NameUniverse == {S_AlBo, S_albu, S_al}

\* every order in which a set of the known names can be iterated
HashSeeds ==
    {s \in [1..Cardinality(NameUniverse) -> NameUniverse] : Range(s) = NameUniverse}

Snapshots == UNION {[1..k -> RowPool] : k \in 0..MaxRows}

----------------------------------------------------------------------------
(* The process: module state, the event loop, the handlers                 *)

Users == {1, 2}
QUsers == {1}
ADMIN_IDS == {1}
Slots == 1..NumSlots

\* what the data file can hold when load_dataset opens it; <<"missing">> is no file
Missing == <<"missing">>
Files == {Missing, <<R1, R2, R3>>, <<R4, R2>>}

\* the messages users send
T_hi       == <<"h", "i">>
T_another  == <<"A", "n", "o", "t", "h", "e", "r">>
T_handle   == <<"@", "A", "l">>
T_unknown  == <<"z", "e", "d", "_">>
T_close    == S_alb
T_exact    == S_albo
T_noname   == <<"z", "z", " ", "z">>
T_mail     == <<"A", "@", "B", ".", "i", "o">>
T_domain   == <<"@", "b", ".", "i", "o">>
T_junk     == <<"?", "!">>
T_junk3    == <<"?", " ", "?", " ", "?">>

Texts == {T_hi, T_another, T_handle, T_unknown, T_close, T_exact, T_noname,
          T_mail, T_domain, T_junk, T_junk3}

IdleReq ==
    [pc |-> "idle", user |-> 0, raw |-> <<>>, t_now |-> 0, lst |-> <<>>,
     allowed |-> FALSE, retry |-> 0, field |-> "", value |-> <<>>, rec |-> None,
     sugg |-> <<>>, result |-> "", reply |-> "", events |-> <<>>,
     trace |-> <<>>, seen |-> <<>>, prior |-> 0]

IdleReload == [pc |-> "idle", user |-> 0, startup |-> FALSE, file |-> <<>>,
               idx |-> 0, target |-> 0, count |-> 0]

InitMain ==
    /\ started = FALSE
    /\ now = 0
    /\ rate_store = [u \in Users |-> <<>>]
    /\ DATA = 0
    /\ heap = (0 :> <<>>)
    /\ built = {0}
    /\ published = {0}
    /\ req = [s \in Slots |-> IdleReq]
    /\ rl = IdleReload
    /\ running = <<>>
    /\ accepted = [u \in Users |-> <<>>]
    /\ msgs = 0

PureOff == fpc = "off" /\ fin = <<>> /\ fout = <<>>

Init == InitMain /\ hashSeed \in HashSeeds /\ PureOff

\* Coroutines of one event loop: a coroutine that has started runs until its
\* next await.  The awaits of handle_query and cmd_reload are the
\* message.answer calls that end every branch.
YieldsAlways(pc) == TRUE

YieldsAt(pc) == pc \in {"answer", "idle"}

QueryTask(s) == <<"query", s>>
ReloadTask == <<"reload">>

CanRun(task) == running = <<>> \/ running = task

Handoff(task, pc) == IF YieldsAt(pc) THEN <<>> ELSE task

\* a step of handle_query in slot s that leaves the snapshot and the limiter alone
QueryStep(s, r) ==
    /\ req' = [req EXCEPT ![s] = r]
    /\ running' = Handoff(QueryTask(s), r.pc)

Tick ==
    /\ started
    /\ now < MaxTime
    /\ now' = now + 1
    /\ UNCHANGED <<started, rate_store, DATA, heap, built, published, hashSeed,
                   req, rl, running, accepted, msgs, pureVars>>

\* the dispatcher starts handle_query for an inbound message
Receive(s, users, texts, cap) ==
    /\ started
    /\ msgs < cap
    /\ req[s].pc = "idle"
    /\ \E u \in users, t \in texts :
         req' = [req EXCEPT ![s] = [IdleReq EXCEPT !.pc = "rate_read", !.user = u, !.raw = Strip(t)]]
    /\ msgs' = msgs + 1
    /\ UNCHANGED <<started, now, rate_store, DATA, heap, built, published, hashSeed,
                   rl, running, accepted, pureVars>>

\* rate_allow, lines 202-205: the clock and the stored list are read
RateRead(s) ==
    /\ req[s].pc = "rate_read"
    /\ CanRun(QueryTask(s))
    /\ QueryStep(s, [req[s] EXCEPT !.pc = "rate_write",
                                   !.t_now = now,
                                   !.lst = Prune(rate_store[req[s].user], now),
                                   !.trace = Append(@, "allow")])
    /\ UNCHANGED <<started, now, rate_store, DATA, heap, built, published, hashSeed,
                   rl, accepted, msgs, pureVars>>

\* lines 287-289: a rejected request is answered and the handler returns
AfterRateNoReturn(allowed) == "intercept"

AfterRate(allowed) == IF allowed THEN "intercept" ELSE "answer"

\* number of timestamps accepted from user u inside (t - Window, t]
AcceptedInWindow(u, t) ==
    Cardinality({i \in DOMAIN accepted[u] : t - Window < accepted[u][i] /\ accepted[u][i] <= t})

\* rate_allow, lines 206-212, and the test of its result at lines 286-289
RateWrite(s) ==
    LET r == req[s]
        ok == Len(r.lst) < RATE_LIMIT_COUNT
        lst == IF ok THEN Append(r.lst, r.t_now) ELSE r.lst
    IN /\ r.pc = "rate_write"
       /\ CanRun(QueryTask(s))
       /\ rate_store' = [rate_store EXCEPT ![r.user] = lst]
       /\ accepted' = IF ok THEN [accepted EXCEPT ![r.user] = Append(@, r.t_now)] ELSE accepted
       /\ QueryStep(s, [r EXCEPT !.pc = AfterRate(ok),
                                 !.allowed = ok,
                                 !.retry = IF ok THEN 0 ELSE RetryAfter(r.lst, r.t_now),
                                 !.result = IF ok THEN "" ELSE "RateLimited",
                                 !.prior = AcceptedInWindow(r.user, r.t_now)])
       /\ UNCHANGED <<started, now, DATA, heap, built, published, hashSeed,
                      rl, msgs, pureVars>>

\* lines 291-301: "another" and greetings are answered before any parsing
Intercept(s) ==
    LET r == req[s]
        low == Strip(Lower(r.raw))
    IN /\ r.pc = "intercept"
       /\ CanRun(QueryTask(s))
       /\ QueryStep(s, IF low \in AnotherWords
                       THEN [r EXCEPT !.pc = "answer", !.result = "Another"]
                       ELSE IF is_greeting(r.raw)
                       THEN [r EXCEPT !.pc = "answer", !.result = "Greeting"]
                       ELSE [r EXCEPT !.pc = "parse"])
       /\ UNCHANGED <<started, now, rate_store, DATA, heap, built, published, hashSeed,
                      rl, accepted, msgs, pureVars>>

\* lines 303-310
Parse(s) ==
    LET r == req[s]
        q == parse_query(r.raw)
    IN /\ r.pc = "parse"
       /\ CanRun(QueryTask(s))
       /\ QueryStep(s, IF q[1] = ""
                       THEN [r EXCEPT !.pc = "answer", !.result = "Unrecognized",
                                      !.trace = Append(@, "classify"),
                                      !.reply = IF TokenCount(r.raw) <= 2 THEN "welcome"
                                                ELSE "not_understood"]
                       ELSE [r EXCEPT !.pc = "check_data", !.field = q[1], !.value = q[2],
                                      !.trace = Append(@, "classify")])
       /\ UNCHANGED <<started, now, rate_store, DATA, heap, built, published, hashSeed,
                      rl, accepted, msgs, pureVars>>

\* what a read of the global DATA sees
Observed == [ref |-> DATA, complete |-> DATA \in built, rows |-> heap[DATA]]

\* line 312: not DATA
NeverEmpty(data) == FALSE

IsEmptyData(data) == Len(data) = 0

\* lines 312-314
CheckData(s) ==
    LET r == req[s]
    IN /\ r.pc = "check_data"
       /\ CanRun(QueryTask(s))
       /\ QueryStep(s, IF IsEmptyData(heap[DATA])
                       THEN [r EXCEPT !.pc = "answer", !.result = "DataUnavailable",
                                      !.seen = Append(@, Observed)]
                       ELSE [r EXCEPT !.pc = "find", !.seen = Append(@, Observed)])
       /\ UNCHANGED <<started, now, rate_store, DATA, heap, built, published, hashSeed,
                      rl, accepted, msgs, pureVars>>

\* line 316, and the tests of lines 318 and 326 on its result
Find(s) ==
    LET r == req[s]
        rec == find_record(heap[DATA], r.field, r.value)
    IN /\ r.pc = "find"
       /\ CanRun(QueryTask(s))
       /\ QueryStep(s, [r EXCEPT !.rec = rec,
                                 !.pc = IF r.field = "name" /\ rec = None THEN "fuzzy"
                                        ELSE IF rec = None THEN "not_found" ELSE "found",
                                 !.trace = Append(@, "match"),
                                 !.seen = Append(@, Observed)])
       /\ UNCHANGED <<started, now, rate_store, DATA, heap, built, published, hashSeed,
                      rl, accepted, msgs, pureVars>>

\* log_lookup and log_not_found, lines 73-79: the rows they append
LookupEvent(r, found, matched) ==
    [log |-> "lookup", user |-> r.user, raw |-> r.raw, field |-> r.field,
     value |-> r.value, found |-> found, matched |-> matched]

NotFoundEvent(r) ==
    [log |-> "not_found", user |-> r.user, raw |-> r.raw, field |-> r.field,
     value |-> r.value]

\* lines 319-324
Fuzzy(s) ==
    LET r == req[s]
        sugg == fuzzy_name_suggestions(heap[DATA], r.value, hashSeed)
    IN /\ r.pc = "fuzzy"
       /\ CanRun(QueryTask(s))
       /\ QueryStep(s, IF sugg # <<>>
                       THEN [r EXCEPT !.pc = "answer", !.result = "Suggestions",
                                      !.sugg = sugg,
                                      !.events = Append(@, LookupEvent(r, FALSE, <<>>)),
                                      !.trace = Append(@, "suggest"),
                                      !.seen = Append(@, Observed)]
                       ELSE [r EXCEPT !.pc = "not_found",
                                      !.trace = Append(@, "suggest"),
                                      !.seen = Append(@, Observed)])
       /\ UNCHANGED <<started, now, rate_store, DATA, heap, built, published, hashSeed,
                      rl, accepted, msgs, pureVars>>

\* lines 326-342
NotFound(s) ==
    LET r == req[s]
    IN /\ r.pc = "not_found"
       /\ CanRun(QueryTask(s))
       /\ QueryStep(s, [r EXCEPT !.pc = "answer", !.result = "NoMatch",
                                 !.events = @ \o <<NotFoundEvent(r), LookupEvent(r, FALSE, <<>>)>>])
       /\ UNCHANGED <<started, now, rate_store, DATA, heap, built, published, hashSeed,
                      rl, accepted, msgs, pureVars>>

\* lines 344-379
Found(s) ==
    LET r == req[s]
    IN /\ r.pc = "found"
       /\ CanRun(QueryTask(s))
       /\ QueryStep(s, [r EXCEPT !.pc = "answer", !.result = "Found",
                                 !.events = Append(@, LookupEvent(r, TRUE, r.rec.full_name))])
       /\ UNCHANGED <<started, now, rate_store, DATA, heap, built, published, hashSeed,
                      rl, accepted, msgs, pureVars>>

\* the awaited message.answer completes and the handler returns
Answer(s) ==
    /\ req[s].pc = "answer"
    /\ CanRun(QueryTask(s))
    /\ QueryStep(s, IdleReq)
    /\ UNCHANGED <<started, now, rate_store, DATA, heap, built, published, hashSeed,
                   rl, accepted, msgs, pureVars>>

ReloadStep(r) ==
    /\ rl' = r
    /\ running' = Handoff(ReloadTask, r.pc)

\* on_startup, lines 382-384: reload_data before polling starts
OnStartup ==
    /\ ~started
    /\ rl.pc = "idle"
    /\ ReloadStep([rl EXCEPT !.pc = "open", !.startup = TRUE])
    /\ UNCHANGED <<started, now, rate_store, DATA, heap, built, published, hashSeed,
                   req, accepted, msgs, pureVars>>

\* the dispatcher starts cmd_reload for a /reload message
ReloadReceive ==
    /\ started
    /\ rl.pc = "idle"
    /\ rl.count < MaxReloads
    /\ \E u \in Users :
         rl' = [rl EXCEPT !.pc = "auth", !.user = u, !.startup = FALSE, !.count = @ + 1]
    /\ UNCHANGED <<started, now, rate_store, DATA, heap, built, published, hashSeed,
                   req, running, accepted, msgs, pureVars>>

\* lines 230-233
ReloadAuth ==
    /\ rl.pc = "auth"
    /\ CanRun(ReloadTask)
    /\ ReloadStep([rl EXCEPT !.pc = IF rl.user \in ADMIN_IDS THEN "open" ELSE "answer"])
    /\ UNCHANGED <<started, now, rate_store, DATA, heap, built, published, hashSeed,
                   req, accepted, msgs, pureVars>>

NewRef == 1 + (CHOOSE r \in DOMAIN heap : \A q \in DOMAIN heap : r >= q)

\* line 83: the list load_dataset fills is a new one
BuildInPlace(fresh) == DATA

BuildTarget(fresh) == fresh

\* lines 83-87 and 113-114: a new list; the file is opened or found missing
LoadOpen ==
    /\ rl.pc = "open"
    /\ CanRun(ReloadTask)
    /\ \E f \in Files :
         LET target == BuildTarget(NewRef)
         IN /\ heap' = [r \in DOMAIN heap \cup {target} |-> IF r = target THEN <<>> ELSE heap[r]]
            /\ ReloadStep([rl EXCEPT !.pc = IF f = Missing THEN "swap" ELSE "row",
                                     !.file = IF f = Missing THEN <<>> ELSE f,
                                     !.idx = 1,
                                     !.target = target])
    /\ UNCHANGED <<started, now, rate_store, DATA, built, published, hashSeed,
                   req, accepted, msgs, pureVars>>

\* lines 88-112: one row is read, normalized and appended
LoadRowStep ==
    /\ rl.pc = "row"
    /\ CanRun(ReloadTask)
    /\ rl.idx <= Len(rl.file)
    /\ heap' = [heap EXCEPT ![rl.target] = Append(@, LoadRow(rl.file[rl.idx]))]
    /\ ReloadStep([rl EXCEPT !.idx = @ + 1])
    /\ UNCHANGED <<started, now, rate_store, DATA, built, published, hashSeed,
                   req, accepted, msgs, pureVars>>

\* lines 115-117: the read raises; the rows read so far are returned
LoadFail ==
    /\ rl.pc = "row"
    /\ CanRun(ReloadTask)
    /\ rl.idx <= Len(rl.file)
    /\ ReloadStep([rl EXCEPT !.pc = "swap"])
    /\ UNCHANGED <<started, now, rate_store, DATA, heap, built, published, hashSeed,
                   req, accepted, msgs, pureVars>>

\* line 117: the file is exhausted
LoadEnd ==
    /\ rl.pc = "row"
    /\ CanRun(ReloadTask)
    /\ rl.idx > Len(rl.file)
    /\ ReloadStep([rl EXCEPT !.pc = "swap"])
    /\ UNCHANGED <<started, now, rate_store, DATA, heap, built, published, hashSeed,
                   req, accepted, msgs, pureVars>>

\* reload_data, lines 121-123: DATA is rebound; the old list has no reference left
Swap ==
    /\ rl.pc = "swap"
    /\ CanRun(ReloadTask)
    /\ DATA' = rl.target
    /\ built' = built \cup {rl.target}
    /\ published' = published \cup {rl.target}
    /\ heap' = [r \in {rl.target} |-> heap[r]]
    /\ started' = TRUE
    /\ ReloadStep([rl EXCEPT !.pc = IF rl.startup THEN "idle" ELSE "answer"])
    /\ UNCHANGED <<now, rate_store, hashSeed, req, accepted, msgs, pureVars>>

\* line 236: the awaited answer of cmd_reload completes
ReloadAnswer ==
    /\ rl.pc = "answer"
    /\ CanRun(ReloadTask)
    /\ ReloadStep([rl EXCEPT !.pc = "idle"])
    /\ UNCHANGED <<started, now, rate_store, DATA, heap, built, published, hashSeed,
                   req, accepted, msgs, pureVars>>

Handler(s) ==
    \/ RateRead(s) \/ RateWrite(s) \/ Intercept(s) \/ Parse(s) \/ CheckData(s)
    \/ Find(s) \/ Fuzzy(s) \/ NotFound(s) \/ Found(s) \/ Answer(s)

Reload ==
    \/ OnStartup \/ ReloadReceive \/ ReloadAuth \/ LoadOpen \/ LoadRowStep
    \/ LoadFail \/ LoadEnd \/ Swap \/ ReloadAnswer

Next ==
    \/ \E s \in 1..QSlots : Receive(s, QUsers, Texts, QMsgs)
    \/ \E s \in 1..QSlots : Handler(s)
    \/ Reload

Spec == Init /\ [][Next]_vars

\* The limiter under load: greetings only, which rate_allow gates like any
\* other message and which end at line 301; the data file was missing at startup.
InitRate ==
    /\ started = TRUE
    /\ now = 0
    /\ rate_store = [u \in Users |-> <<>>]
    /\ DATA = 1
    /\ heap = (1 :> <<>>)
    /\ built = {0, 1}
    /\ published = {0, 1}
    /\ req = [s \in Slots |-> IdleReq]
    /\ rl = [IdleReload EXCEPT !.startup = TRUE, !.idx = 1, !.target = 1]
    /\ running = <<>>
    /\ accepted = [u \in Users |-> <<>>]
    /\ msgs = 0
    /\ hashSeed = CHOOSE h \in HashSeeds : TRUE
    /\ PureOff

NextRate ==
    \/ Tick
    \/ \E s \in Slots : Receive(s, Users, {T_hi}, MaxMsgs)
    \/ \E s \in Slots : RateRead(s) \/ RateWrite(s) \/ Intercept(s) \/ Answer(s)

SpecRate == InitRate /\ [][NextRate]_vars

----------------------------------------------------------------------------
(* Harness for the pure functions: the input is drawn at Init, one action  *)
(* applies the function.                                                   *)

NormAlphabet == {"@", " ", "a", "A"}

MainOff == InitMain

\* one cell of the tg_username column
InitNorm ==
    /\ MainOff /\ hashSeed = CHOOSE h \in HashSeeds : TRUE
    /\ fpc = "cell"
    /\ fin \in Strs(NormAlphabet, MaxLen)
    /\ fout = <<>>

\* lines 94 and 109: the cell is stripped, then tg_norm is derived from it
NormLoad ==
    /\ fpc = "cell"
    /\ fpc' = "loaded"
    /\ fout' = <<Strip(fin), normalizeHandle(Strip(fin))>>
    /\ UNCHANGED <<fin, mainVars>>

\* the derived value normalized once more
NormAgain ==
    /\ fpc = "loaded"
    /\ fpc' = "again"
    /\ fout' = Append(fout, normalizeHandle(fout[2]))
    /\ UNCHANGED <<fin, mainVars>>

NextNorm == NormLoad \/ NormAgain

SpecNorm == InitNorm /\ [][NextNorm]_vars

InitMatch ==
    /\ MainOff /\ hashSeed = CHOOSE h \in HashSeeds : TRUE
    /\ fpc = "rows"
    /\ fin \in [rows : Snapshots,
                field : {"raw", "tg_norm", "x_norm", "email_norm", "name", "email_domain"},
                value : {S_al, S_zed, S_AlBo, <<"b", ".", "i", "o">>, <<"A", "@", "B", ".", "i", "o">>}]
    /\ fout = <<>>

\* load_dataset over the rows
MatchLoad ==
    /\ fpc = "rows"
    /\ fpc' = "data"
    /\ fout' = <<LoadRows(fin.rows)>>
    /\ UNCHANGED <<fin, mainVars>>

\* find_record on the loaded snapshot
MatchFind ==
    /\ fpc = "data"
    /\ fpc' = "found"
    /\ fout' = Append(fout, find_record(fout[1], fin.field, fin.value))
    /\ UNCHANGED <<fin, mainVars>>

NextMatch == MatchLoad \/ MatchFind

SpecMatch == InitMatch /\ [][NextMatch]_vars

InitFuzzy ==
    /\ MainOff
    /\ hashSeed \in HashSeeds
    /\ fpc = "rows"
    /\ fin \in [rows : Snapshots, value : {S_alb, S_albo}]
    /\ fout = <<>>

FuzzyLoad ==
    /\ fpc = "rows"
    /\ fpc' = "data"
    /\ fout' = <<LoadRows(fin.rows)>>
    /\ UNCHANGED <<fin, mainVars>>

\* fuzzy_name_suggestions on the loaded snapshot, and once more
FuzzyCall ==
    /\ fpc \in {"data", "once"}
    /\ fpc' = IF fpc = "data" THEN "once" ELSE "twice"
    /\ fout' = Append(fout, fuzzy_name_suggestions(fout[1], fin.value, hashSeed))
    /\ UNCHANGED <<fin, mainVars>>

NextFuzzy == FuzzyLoad \/ FuzzyCall

SpecFuzzy == InitFuzzy /\ [][NextFuzzy]_vars

----------------------------------------------------------------------------
(* Properties *)

Count(seq, t) == Cardinality({i \in DOMAIN seq : seq[i] = t})

IsPrefix(p, q) == Len(p) <= Len(q) /\ SubSeq(q, 1, Len(p)) = p

\* rate_allow has returned in this request
Decided(r) == "allow" \in Range(r.trace) /\ r.pc # "rate_write"

\* seconds from ticks, rounded up
CeilSec(ticks) == (ticks + TicksPerSec - 1) \div TicksPerSec

\* C1: a call of rate_allow is accepted exactly when fewer than RATE_LIMIT_COUNT
\* of the user's earlier accepted timestamps lie in (now - window, now]; a
\* rejected call reports a positive retry delay; and no window of that length
\* ever holds more than RATE_LIMIT_COUNT accepted calls of one user.
SlidingWindowAdmission ==
    /\ \A s \in Slots :
         Decided(req[s]) =>
            /\ req[s].allowed <=> req[s].prior < RATE_LIMIT_COUNT
            /\ ~req[s].allowed => req[s].retry > 0
    /\ \A u \in Users, t \in 0..MaxTime : AcceptedInWindow(u, t) <= RATE_LIMIT_COUNT

\* C1 witness: a user was rejected inside a full window and, the window having
\* slid past the first timestamps, accepted again.
SlidingWindowWitness ==
    \E s \in Slots :
        /\ req[s].pc = "answer" /\ ~req[s].allowed /\ req[s].retry > 0
        /\ Len(accepted[req[s].user]) > RATE_LIMIT_COUNT

\* C2: a rejected call reports ceil(oldest remaining timestamp + window - now)
\* seconds, and at least 1.
RetryAfterIsCeiling ==
    \A s \in Slots :
        (Decided(req[s]) /\ ~req[s].allowed /\ req[s].lst # <<>>) =>
            /\ req[s].retry = CeilSec(req[s].lst[1] + Window - req[s].t_now)
            /\ req[s].retry >= 1

\* every accepted timestamp still inside the window is in the stored list, as
\* often as it was accepted
WindowKept ==
    \A u \in Users, t \in 0..MaxTime :
        (now - Window < t /\ t <= now) => Count(rate_store[u], t) = Count(accepted[u], t)

\* a list changes only by the write of a rate_allow call of its own user
OwnListOnly ==
    \A u \in Users :
        rate_store'[u] # rate_store[u] =>
            \E s \in Slots : /\ req[s].user = u
                             /\ req[s].pc = "rate_write"
                             /\ req'[s].pc # "rate_write"

\* C8: no update of the limiter is lost when requests of one user overlap, and
\* calls for one user never change the list of another.
NoLostUpdates == []WindowKept /\ [][OwnListOnly]_vars

\* C8 witness: two requests of one user in flight at once, both accepted, both
\* timestamps stored.
OverlappingAccepted ==
    \E s1 \in Slots, s2 \in Slots :
        /\ s1 # s2
        /\ req[s1].user = req[s2].user
        /\ req[s1].pc = "answer" /\ req[s2].pc = "answer"
        /\ req[s1].allowed /\ req[s2].allowed
        /\ Len(rate_store[req[s1].user]) = 2

\* every read of DATA by one request saw the same, completely built list
ReadsOneSnapshot ==
    /\ DATA \in built
    /\ DATA \in DOMAIN heap
    /\ \A s \in Slots : \A i \in DOMAIN req[s].seen :
         /\ req[s].seen[i].complete
         /\ req[s].seen[i].ref = req[s].seen[1].ref
         /\ req[s].seen[i].rows = req[s].seen[1].rows

\* a list that has been bound to DATA is never written again
PublishedImmutable ==
    \A r \in published : (r \in DOMAIN heap /\ r \in DOMAIN heap') => heap'[r] = heap[r]

\* C3: the emptiness check, the exact match and the fuzzy ranking of one query
\* all read one complete snapshot, whatever /reload does meanwhile, and a
\* snapshot is not mutated once it is the active one.
ReloadAtomic == []ReadsOneSnapshot /\ [][PublishedImmutable]_vars

\* C3 witness: a query that read the snapshot several times is still awaiting
\* its answer when a reload has replaced that snapshot.
ReloadDuringQuery ==
    \E s \in Slots :
        /\ req[s].pc = "answer"
        /\ Len(req[s].seen) >= 2
        /\ req[s].seen[1].ref # DATA
        /\ req[s].seen[1].rows # heap[DATA]

QueryFields == {"email_norm", "tg_norm", "x_norm", "raw", "name", "email_domain"}
QueryValues == {parse_query(t)[2] : t \in Texts}

\* C4: an admitted query with a recognized kind that finds the snapshot empty
\* ends as DataUnavailable, with no record, no suggestion and no event; and on
\* an empty snapshot find_record returns None and the ranker an empty list.
DataUnavailableOnEmpty ==
    /\ \A s \in Slots :
         LET r == req[s]
         IN /\ r.field # "" => (r.pc = "check_data" \/ r.seen # <<>>)
            /\ (r.field # "" /\ r.seen # <<>> /\ r.seen[1].rows = <<>>) =>
                  /\ r.pc = "answer"
                  /\ r.result = "DataUnavailable"
                  /\ r.rec = None /\ r.sugg = <<>> /\ r.events = <<>>
    /\ \A f \in QueryFields, v \in QueryValues : find_record(<<>>, f, v) = None
    /\ \A v \in QueryValues : fuzzy_name_suggestions(<<>>, v, hashSeed) = <<>>

\* C4 witness: a classified query answered DataUnavailable.
DataUnavailableWitness ==
    \E s \in Slots :
        /\ req[s].pc = "answer" /\ req[s].field # ""
        /\ req[s].result = "DataUnavailable"
        /\ req[s].seen[1].rows = <<>>

\* C5: a lookup that reached the matcher and has no record emitted one
\* not-found event and one lookup event with found = false, suggestions or not;
\* a lookup with a record emitted one lookup event with found = true and the
\* matched name, and nothing else.
AuditEventsPerLookup ==
    \A s \in Slots :
        LET r == req[s]
        IN (r.pc = "answer" /\ "match" \in Range(r.trace)) =>
              IF r.rec = None
              THEN /\ Len(r.events) = 2
                   /\ \E i \in 1..2 : r.events[i] = NotFoundEvent(r)
                   /\ \E i \in 1..2 : r.events[i] = LookupEvent(r, FALSE, <<>>)
              ELSE r.events = <<LookupEvent(r, TRUE, r.rec.full_name)>>

\* the stages a request went through follow the given order; the matcher and
\* the ranker ran only for an admitted request, the ranker only for a name
\* query whose exact match found nothing
StagesFollow(r, order) ==
    /\ IsPrefix(r.trace, order)
    /\ "match" \in Range(r.trace) => r.allowed
    /\ "suggest" \in Range(r.trace) => (r.allowed /\ r.field = "name" /\ r.rec = None)

\* C7 as stated: classified first, then the rate limiter, then match and suggest.
ClassifyThenAllow ==
    \A s \in Slots : StagesFollow(req[s], <<"classify", "allow", "match", "suggest">>)

\* C7 amended: the rate limiter first, then the classifier, then match and suggest.
AllowThenClassify ==
    \A s \in Slots : StagesFollow(req[s], <<"allow", "classify", "match", "suggest">>)

\* C7 witness: a request that went through all four stages.
AllStagesWitness ==
    \E s \in Slots : req[s].trace = <<"allow", "classify", "match", "suggest">>

\* C6: normalizing a normalized handle changes nothing.
NormalizeHandleIdempotent ==
    fpc = "again" => fout[3] = fout[2]

Least(S) == CHOOSE i \in S : \A j \in S : i <= j

\* C9 as stated: a telegram hit wins over an x hit and an x hit over an email
\* hit, wherever the rows stand; within one field the first row wins.
RawHandleFieldPrecedence ==
    (fpc = "found" /\ fin.field = "raw") =>
        LET data == fout[1]
            v == Lower(Strip(fin.value))
            tg == {i \in DOMAIN data : data[i].tg_norm = v}
            x  == {i \in DOMAIN data : data[i].x_norm = v}
            em == {i \in DOMAIN data : data[i].email_norm = v}
        IN fout[2] = IF tg # {} THEN data[Least(tg)]
                     ELSE IF x # {} THEN data[Least(x)]
                     ELSE IF em # {} THEN data[Least(em)]
                     ELSE None

\* C9 amended: the first row, in snapshot order, that hits on any of the three
\* fields is returned, whichever field it hits on; None when no row hits.
RawHandleFirstRowWins ==
    (fpc = "found" /\ fin.field = "raw") =>
        LET data == fout[1]
            v == Lower(Strip(fin.value))
            hits == {i \in DOMAIN data : \/ data[i].tg_norm = v
                                          \/ data[i].x_norm = v
                                          \/ data[i].email_norm = v}
        IN \/ hits = {} /\ fout[2] = None
           \/ \E i \in hits : fout[2] = data[i] /\ \A j \in hits : i <= j

\* C9 witness: a row hitting on x or email stands before a row hitting on
\* telegram, and is the one returned.
RawHandleConflictWitness ==
    /\ fpc = "found" /\ fin.field = "raw"
    /\ \E i \in DOMAIN fout[1], j \in DOMAIN fout[1] :
         /\ i < j
         /\ fout[1][i].tg_norm # Lower(Strip(fin.value))
         /\ fout[1][j].tg_norm = Lower(Strip(fin.value))
         /\ fout[2] = fout[1][i]

FirstIndex(names, n) == Least({i \in DOMAIN names : names[i] = n})

RatioEq(p, q) == p[1] * q[2] = q[1] * p[2]

\* C10: the suggestions are at most FUZZY_MAX_SUGGEST distinct names with a
\* ratio of at least the cutoff, by descending ratio, equal ratios in the order
\* the names first appear in the snapshot; a repeated call returns the same list.
FuzzyStableRanking ==
    fpc = "twice" =>
        LET names == NamesOf(fout[1])
            a == fout[2]
        IN /\ fout[3] = a
           /\ Len(a) <= FUZZY_MAX_SUGGEST
           /\ \A i \in DOMAIN a :
                /\ a[i][1] \in Range(names)
                /\ RatioGeq(a[i][2], <<CutoffNum, CutoffDen>>)
           /\ \A i \in DOMAIN a, j \in DOMAIN a :
                i < j =>
                   /\ a[i][1] # a[j][1]
                   /\ \/ RatioGt(a[i][2], a[j][2])
                      \/ /\ RatioEq(a[i][2], a[j][2])
                         /\ FirstIndex(names, a[i][1]) < FirstIndex(names, a[j][1])

====
